---- MODULE Spec2Model ----
(***************************************************************************)
(* Model of the itinerary optimizer of src/app/planner/planner.py:         *)
(* the plan data model, ItineraryEvaluator and GeneticAlgorithmPlanner.    *)
(*                                                                         *)
(* Encodings.                                                              *)
(*  - A datetime is the number of minutes since 00:00 of day 0.            *)
(*  - A cost is a whole number of currency units.                          *)
(*  - A rating is kept in tenths (rating 4.5 is 45).                       *)
(*  - A Location is a latitude in hundredths of a degree on one meridian,  *)
(*    or NoLocation for None.                                              *)
(*  - A score is kept in units of 1/100000; each normalised sub-score is   *)
(*    kept in units of 1/1000 (truncated), each weight in units of 1/100.  *)
(*  - Every call of the random module is a nondeterministic choice.        *)
(***************************************************************************)
EXTENDS Integers, Sequences, FiniteSets, TLC

\* ------------------------------------------------------------------ bounds

\* Number of activities in the largest catalog handed to the planner.
NumActivities == 3
\* max_iterations handed to optimize.
MaxIterations == 2
\* population_size of the planner.
PopulationSize == 3

\* --------------------------------------------------------------- datetimes

MinutesPerDay == 1440

DateOf(dt) == dt \div MinutesPerDay

HourOf(dt) == (dt % MinutesPerDay) \div 60

\* datetime.replace(hour=h): every other field, the minute included, is kept.
ReplaceHour(dt, h) == DateOf(dt) * MinutesPerDay + h * 60 + (dt % 60)

\* (end - start).days: timedelta normalises, so .days is the floor.
TimedeltaDays(end, start) == (end - start) \div MinutesPerDay

At(day, hour, minute) == day * MinutesPerDay + hour * 60 + minute

\* The number of calendar days of the inclusive range [start, end].
CalendarDays(start, end) ==
    IF DateOf(end) < DateOf(start) THEN 0 ELSE DateOf(end) - DateOf(start) + 1

\* ------------------------------------------------------------- enumerations

SUNNY == "soleado"
CLOUDY == "nublado"
RAINY == "lluvioso"
STORMY == "tormentoso"

WeatherCondition == <<SUNNY, CLOUDY, RAINY, STORMY>>

\* The outcomes of random.choice(list(WeatherCondition)) that are enumerated.
WeatherDraws == {RAINY}

\* The outcomes of random.randint(10, 20) that are enumerated.
TransportTimeDraws == {10, 20}

\* The outcomes of random.uniform(3, 8) that are enumerated.
TransportCostDraws == {3, 8}

\* ----------------------------------------------------------------- helpers

Max(a, b) == IF a >= b THEN a ELSE b

Min(a, b) == IF a <= b THEN a ELSE b

Abs(a) == IF a >= 0 THEN a ELSE 0 - a

RECURSIVE SumSeq(_)
SumSeq(s) == IF s = <<>> THEN 0 ELSE Head(s) + SumSeq(Tail(s))

RECURSIVE Concat(_)
Concat(ss) == IF ss = <<>> THEN <<>> ELSE Head(ss) \o Concat(Tail(ss))

Range(s) == {s[k] : k \in DOMAIN s}

\* list.remove(x): the first element equal to x is removed.
RECURSIVE ListRemove(_, _)
ListRemove(s, x) ==
    IF s = <<>> THEN <<>>
    ELSE IF Head(s) = x THEN Tail(s)
    ELSE <<Head(s)>> \o ListRemove(Tail(s), x)

RemoveAt(s, k) == SubSeq(s, 1, k - 1) \o SubSeq(s, k + 1, Len(s))

\* ------------------------------------------------------------------ Location

NoLocation == -1

\* Haversine on one meridian is the arc length: 6371 km * pi / 180 per degree,
\* 1112 m per hundredth of a degree.
MetresPerCentiDegree == 1112

distance_to(l1, l2) == MetresPerCentiDegree * Abs(l1 - l2)

\* ----------------------------------------------------------- TourismActivity

is_available_at(activity, dt) ==
    activity.start_hour <= HourOf(dt) /\ HourOf(dt) < activity.end_hour

\* In tenths: 0.1 is 1, 0.8 is 8.
get_weather_penalty(activity, weather) ==
    IF activity.indoor THEN 1
    ELSE IF weather \in {RAINY, STORMY} THEN 8 ELSE 1

\* ------------------------------------------------------------- ItineraryItem

ItineraryItem(activity, start_time, transport_time, transport_cost) ==
    [activity |-> activity, start_time |-> start_time,
     transport_time |-> transport_time, transport_cost |-> transport_cost]

\* -------------------------------------------------------------------- DayPlan

DayPlan(date, items, weather) ==
    [date |-> date, items |-> items, weather |-> weather]

get_duration(day) ==
    SumSeq([k \in DOMAIN day.items |->
              day.items[k].activity.duration_minutes + day.items[k].transport_time])

get_cost(day) ==
    SumSeq([k \in DOMAIN day.items |->
              day.items[k].activity.cost + day.items[k].transport_cost])

RECURSIVE ItemsWithLocation(_)
ItemsWithLocation(items) ==
    IF items = <<>> THEN <<>>
    ELSE IF Head(items).activity.location # NoLocation
         THEN <<Head(items)>> \o ItemsWithLocation(Tail(items))
         ELSE ItemsWithLocation(Tail(items))

\* In metres.
get_walking_distance(day) ==
    IF Len(day.items) <= 1 THEN 0
    ELSE LET items_with_location == ItemsWithLocation(day.items)
         IN  IF Len(items_with_location) <= 1 THEN 0
             ELSE SumSeq([k \in 1..(Len(items_with_location) - 1) |->
                     distance_to(items_with_location[k].activity.location,
                                 items_with_location[k + 1].activity.location)])

\* ------------------------------------------------------------------ Itinerary

\* Itinerary.__init__: the cached fitness_score starts at 0.0.
Itinerary(days) == [days |-> days, fitness_score |-> 0]

AllItems(itinerary) ==
    Concat([d \in DOMAIN itinerary.days |-> itinerary.days[d].items])

get_total_cost(itinerary) ==
    SumSeq([d \in DOMAIN itinerary.days |-> get_cost(itinerary.days[d])])

\* item by item and day by day, and a fresh fitness_score.
clone(itinerary) ==
    Itinerary([d \in DOMAIN itinerary.days |->
        DayPlan(itinerary.days[d].date,
                [k \in DOMAIN itinerary.days[d].items |->
                    ItineraryItem(itinerary.days[d].items[k].activity,
                                  itinerary.days[d].items[k].start_time,
                                  itinerary.days[d].items[k].transport_time,
                                  itinerary.days[d].items[k].transport_cost)],
                itinerary.days[d].weather)])

\* The activity ids of all the items of all the days, in schedule order.
ActivityIds(itinerary) ==
    LET items == AllItems(itinerary)
    IN  [k \in DOMAIN items |-> items[k].activity.id]

IdSet(itinerary) == Range(ActivityIds(itinerary))

\* ---------------------------------------------------------- ItineraryEvaluator

\* A sub-score of 1.0, and the score that stands for a weight of 1/100.
One == 1000

\* _calculate_time_efficiency, in thousandths.
calculate_time_efficiency(itinerary) ==
    LET items == AllItems(itinerary)
        activity_time == SumSeq([k \in DOMAIN items |-> items[k].activity.duration_minutes])
        transport_time == SumSeq([k \in DOMAIN items |-> items[k].transport_time])
        total_time == activity_time + transport_time
    IN  IF total_time > 0 THEN (activity_time * One) \div total_time ELSE 0

\* _calculate_weather_score, in thousandths.
calculate_weather_score(itinerary) ==
    LET penalties == Concat([d \in DOMAIN itinerary.days |->
            [k \in DOMAIN itinerary.days[d].items |->
                get_weather_penalty(itinerary.days[d].items[k].activity,
                                    itinerary.days[d].weather)]])
    IN  IF penalties # <<>>
        THEN One - (SumSeq(penalties) * (One \div 10)) \div Len(penalties)
        ELSE One

\* _calculate_interest_score, in thousandths.
calculate_interest_score(preferences, itinerary) ==
    IF preferences.interest_categories = {} THEN One
    ELSE LET user_interests == preferences.interest_categories
             items == AllItems(itinerary)
             matches == [k \in DOMAIN items |->
                 Cardinality(user_interests \cap items[k].activity.interest_categories)]
         IN  IF matches # <<>>
             THEN (SumSeq(matches) * One) \div (Len(matches) * Cardinality(user_interests))
             ELSE 0

\* _calculate_violations, in tenths.
calculate_violations_any_budget(preferences, itinerary) ==
    LET DayPenalty(day) ==
            (IF get_duration(day) > preferences.max_daily_duration THEN 5 ELSE 0)
          + (IF get_walking_distance(day) > preferences.max_walking_distance * 1000
             THEN 3 ELSE 0)
          + SumSeq([k \in DOMAIN day.items |->
                IF ~is_available_at(day.items[k].activity, day.items[k].start_time)
                THEN 2 ELSE 0])
        days_penalty == SumSeq([d \in DOMAIN itinerary.days |->
                                  DayPenalty(itinerary.days[d])])
    IN  days_penalty
      + (IF get_total_cost(itinerary) > preferences.max_budget THEN 10 ELSE 0)

calculate_violations(preferences, itinerary) ==
    LET DayPenalty(day) ==
            (IF get_duration(day) > preferences.max_daily_duration THEN 5 ELSE 0)
          + (IF get_walking_distance(day) > preferences.max_walking_distance * 1000
             THEN 3 ELSE 0)
          + SumSeq([k \in DOMAIN day.items |->
                IF ~is_available_at(day.items[k].activity, day.items[k].start_time)
                THEN 2 ELSE 0])
        days_penalty == SumSeq([d \in DOMAIN itinerary.days |->
                                  DayPenalty(itinerary.days[d])])
    IN  days_penalty
      + (IF preferences.max_budget > 0
            /\ get_total_cost(itinerary) > preferences.max_budget
         THEN 10 ELSE 0)

\* Itinerary.get_average_rating divided by 5.0, in thousandths.
rating_score(itinerary) ==
    LET items == AllItems(itinerary)
    IN  IF items # <<>>
        THEN (SumSeq([k \in DOMAIN items |-> items[k].activity.rating]) * (One \div 50))
                 \div Len(items)
        ELSE 0

\* total_cost / max_budget is a float division: it raises ZeroDivisionError
\* when max_budget is 0.0.
EvaluateRaises(preferences, itinerary) ==
    itinerary.days # <<>> /\ preferences.max_budget = 0

\* max(0, 1 - total_cost / max_budget), in thousandths; for max_budget # 0.
cost_score(preferences, itinerary) ==
    LET total_cost == get_total_cost(itinerary)
        max_budget == preferences.max_budget
        ratio == IF max_budget > 0
                 THEN (total_cost * One) \div max_budget
                 ELSE 0 - ((total_cost * One) \div (0 - max_budget))
    IN  Max(0, One - ratio)

\* The weighted sum of evaluate before the penalty, in 1/100000.
WeightedSum(preferences, itinerary) ==
      preferences.weights.cost * cost_score(preferences, itinerary)
    + preferences.weights.rating * rating_score(itinerary)
    + preferences.weights.time * calculate_time_efficiency(itinerary)
    + preferences.weights.weather * calculate_weather_score(itinerary)
    + preferences.weights.interest * calculate_interest_score(preferences, itinerary)

\* ItineraryEvaluator.evaluate, in 1/100000; defined where it does not raise.
evaluate_unclamped(preferences, itinerary) ==
    IF itinerary.days = <<>> THEN 0
    ELSE WeightedSum(preferences, itinerary)
            - calculate_violations(preferences, itinerary) * (10 * One)

evaluate(preferences, itinerary) ==
    IF itinerary.days = <<>> THEN 0
    ELSE Max(0, WeightedSum(preferences, itinerary)
                  - calculate_violations(preferences, itinerary) * (10 * One))

\* ------------------------------------------------------------------- inputs

\* Catalog entry k. The first three differ in the fields the planner reads:
\* one fills the daily window, one leaves room for a second activity, and the
\* best rated one runs past midnight.
Activity(k) ==
    CASE k = 1 -> [id |-> 1, duration_minutes |-> 480, cost |-> 45, rating |-> 45,
                   start_hour |-> 9, end_hour |-> 17, indoor |-> TRUE,
                   location |-> 0, interest_categories |-> {"historia"}]
      [] k = 2 -> [id |-> 2, duration_minutes |-> 460, cost |-> 0, rating |-> 30,
                   start_hour |-> 9, end_hour |-> 17, indoor |-> FALSE,
                   location |-> 10, interest_categories |-> {}]
      [] k = 3 -> [id |-> 3, duration_minutes |-> 900, cost |-> 10, rating |-> 50,
                   start_hour |-> 9, end_hour |-> 17, indoor |-> TRUE,
                   location |-> NoLocation, interest_categories |-> {"playa"}]
      [] OTHER -> [id |-> k, duration_minutes |-> 500, cost |-> 5 * k, rating |-> 35,
                   start_hour |-> 9, end_hour |-> 17, indoor |-> TRUE,
                   location |-> k, interest_categories |-> {"historia", "playa"}]

\* The catalog of the first n entries; ids are pairwise distinct.
Catalog(n) == [k \in 1..n |-> Activity(k)]

\* UserPreferences' default weights, in hundredths.
DefaultWeights ==
    [cost |-> 25, time |-> 20, rating |-> 25, weather |-> 15, interest |-> 15]

\* UserPreferences with the dataclass defaults for the fields not given.
UserPreferences(start_date, end_date, max_budget, interest_categories) ==
    [start_date |-> start_date, end_date |-> end_date, max_budget |-> max_budget,
     daily_start_hour |-> 9, daily_end_hour |-> 18, max_daily_duration |-> 480,
     max_walking_distance |-> 5, interest_categories |-> interest_categories,
     weights |-> DefaultWeights]

\* Two calendar days, a budget of 100, one interest, and no limit on a day's
\* duration (the default is 480 minutes).
BasePreferences ==
    [UserPreferences(At(0, 9, 0), At(1, 9, 0), 100, {"historia"}) EXCEPT
        !.max_daily_duration = MinutesPerDay]

\* The preference sets optimize is run with: a limited budget, the default
\* unlimited budget (0), and a range that starts later in the day than it ends.
RunPreferences ==
    { BasePreferences,
      UserPreferences(At(0, 9, 0), At(1, 9, 0), 0, {}),
      UserPreferences(At(0, 18, 30), At(1, 9, 0), 100, {}) }

\* --------------------------------------------------------------------- state

VARIABLES
    activities,           \* GeneticAlgorithmPlanner.activities
    preferences,          \* GeneticAlgorithmPlanner.preferences
    population_size,      \* GeneticAlgorithmPlanner.population_size
    max_iterations,       \* the argument of optimize
    population,           \* GeneticAlgorithmPlanner.population
    best_solution,        \* GeneticAlgorithmPlanner.best_solution
    best_score,           \* GeneticAlgorithmPlanner.best_score
    used_activities,      \* GeneticAlgorithmPlanner.used_activities
    pc,                   \* the position of optimize
    generation,           \* the loop variable of optimize
    fitness_scores,       \* the local of optimize
    exception,            \* the exception optimize has raised, or "none"
    days,                 \* locals of _generate_random_itinerary
    current_date,
    daily_budget,
    available_activities, \* locals of _generate_random_day
    selected_items,
    current_time,
    current_cost,
    new_population,       \* the local of _create_next_generation
    breeder,              \* per constructor of a child: its position and locals
    cancelled_at          \* the generation a cancellation signal arrived in, or -1

config == <<activities, preferences, population_size, max_iterations>>

planner == <<population, best_solution, best_score, used_activities>>

control == <<pc, generation, fitness_scores, exception>>

itinerary_locals == <<days, current_date, daily_budget>>

day_locals == <<available_activities, selected_items, current_time, current_cost>>

breed_locals == <<new_population, breeder>>

vars == <<config, planner, control, itinerary_locals, day_locals, breed_locals,
          cancelled_at>>

\* Optional[Itinerary]'s None.
None == [is_none |-> TRUE]

IsNone(x) == "is_none" \in DOMAIN x

\* A budget ceiling is a fraction num / den with den > 0: max_budget / days and
\* cost * 1.2 need not be whole.
Budget(num, den) == [num |-> num, den |-> den]

NoBudget == Budget(0, 1)

IdleBreeder ==
    [pc |-> "idle", parent1 |-> None, parent2 |-> None, i |-> 0,
     child_days |-> <<>>, child |-> None]

\* GeneticAlgorithmPlanner.__init__ and the locals before their first use.
Constructed(acts, prefs, size, iterations) ==
    /\ activities = acts
    /\ preferences = prefs
    /\ population_size = size
    /\ max_iterations = iterations
    /\ population = <<>>
    /\ best_solution = None
    /\ best_score = 0
    /\ used_activities = {}
    /\ pc = "start"
    /\ generation = 0
    /\ fitness_scores = <<>>
    /\ exception = "none"
    /\ days = <<>>
    /\ current_date = 0
    /\ daily_budget = NoBudget
    /\ available_activities = <<>>
    /\ selected_items = <<>>
    /\ current_time = 0
    /\ current_cost = 0
    /\ new_population = <<>>
    /\ breeder = [w \in {1} |-> IdleBreeder]
    /\ cancelled_at = -1

Init ==
    \E n \in {0, NumActivities}, prefs \in RunPreferences :
        Constructed(Catalog(n), prefs, PopulationSize, MaxIterations)

\* ------------------------------------------------- GeneticAlgorithmPlanner

get_available_activities_foreign(acts, used, budget) ==
    <<Activity(Len(acts) + 1)>>

get_available_activities(acts, used, budget) ==
    LET Unused(a) == a.id \notin used
        Affordable(a) == a.cost * budget.den <= budget.num
    IN  IF budget.num <= 0
        THEN SelectSeq(acts, Unused)
        ELSE SelectSeq(acts, LAMBDA a : Affordable(a) /\ Unused(a))

\* optimize, lines 285-286: the tracking set is cleared once for the run.
OptimizeStart ==
    /\ pc = "start"
    /\ used_activities' = {}
    /\ pc' = IF population_size > 0 THEN "itinerary" ELSE "generation"
    /\ UNCHANGED <<config, population, best_solution, best_score, generation,
                   fitness_scores, exception, itinerary_locals, day_locals,
                   breed_locals, cancelled_at>>

\* An itinerary that starts from an empty tracking set.
BeginItineraryFresh ==
    /\ pc = "itinerary"
    /\ days' = <<>>
    /\ current_date' = preferences.start_date
    /\ daily_budget' = Budget(preferences.max_budget,
            Max(1, TimedeltaDays(preferences.end_date, preferences.start_date) + 1))
    /\ used_activities' = {}
    /\ pc' = "date_loop"
    /\ UNCHANGED <<config, population, best_solution, best_score, generation,
                   fitness_scores, exception, day_locals, breed_locals,
                   cancelled_at>>

\* _generate_random_itinerary up to its loop.
BeginItinerary ==
    /\ pc = "itinerary"
    /\ days' = <<>>
    /\ current_date' = preferences.start_date
    /\ daily_budget' = Budget(preferences.max_budget,
            Max(1, TimedeltaDays(preferences.end_date, preferences.start_date) + 1))
    /\ pc' = "date_loop"
    /\ UNCHANGED <<config, planner, generation, fitness_scores, exception,
                   day_locals, breed_locals, cancelled_at>>

\* _generate_random_day when nothing is available: an empty DayPlan.
EmptyDay ==
    /\ pc = "date_loop"
    /\ current_date <= preferences.end_date
    /\ get_available_activities(activities, used_activities, daily_budget) = <<>>
    /\ \E weather \in WeatherDraws :
          days' = Append(days, DayPlan(current_date, <<>>, weather))
    /\ current_date' = current_date + MinutesPerDay
    /\ UNCHANGED <<config, planner, control, daily_budget, day_locals,
                   breed_locals, cancelled_at>>

\* _generate_random_day up to its loop.
BeginDay ==
    /\ pc = "date_loop"
    /\ current_date <= preferences.end_date
    /\ get_available_activities(activities, used_activities, daily_budget) # <<>>
    /\ available_activities' =
          get_available_activities(activities, used_activities, daily_budget)
    /\ selected_items' = <<>>
    /\ current_time' = ReplaceHour(current_date, preferences.daily_start_hour)
    /\ current_cost' = 0
    /\ pc' = "day_loop"
    /\ UNCHANGED <<config, planner, generation, fitness_scores, exception,
                   itinerary_locals, breed_locals, cancelled_at>>

DayLoopCondition ==
    /\ HourOf(current_time) < preferences.daily_end_hour - 1
    /\ available_activities # <<>>

\* Whether the drawn activity passes the budget test of line 347.
Fits(budget, cost_so_far, activity) ==
    \/ budget.num <= 0
    \/ (cost_so_far + activity.cost) * budget.den <= budget.num

\* One pass of the loop of _generate_random_day.
DrawActivityMarkAfter ==
    /\ pc = "day_loop"
    /\ DayLoopCondition
    /\ \E k \in DOMAIN available_activities :
          LET activity == available_activities[k]
          IN  /\ activity.rating > 0
              /\ available_activities' = ListRemove(available_activities, activity)
              /\ used_activities' = IF Fits(daily_budget, current_cost, activity)
                                    THEN used_activities \cup {activity.id}
                                    ELSE used_activities
              /\ IF Fits(daily_budget, current_cost, activity)
                 THEN \E transport_time \in TransportTimeDraws,
                         transport_cost \in TransportCostDraws :
                        /\ selected_items' = Append(selected_items,
                              ItineraryItem(activity, current_time,
                                            transport_time, transport_cost))
                        /\ current_cost' = current_cost + activity.cost + transport_cost
                        /\ current_time' = current_time + activity.duration_minutes
                                                        + transport_time
                 ELSE UNCHANGED <<selected_items, current_cost, current_time>>
    /\ UNCHANGED <<config, population, best_solution, best_score, control,
                   itinerary_locals, breed_locals, cancelled_at>>

DrawActivity ==
    /\ pc = "day_loop"
    /\ DayLoopCondition
    /\ \E k \in DOMAIN available_activities :
          LET activity == available_activities[k]
          IN  /\ activity.rating > 0
              /\ available_activities' = ListRemove(available_activities, activity)
              /\ used_activities' = used_activities \cup {activity.id}
              /\ IF Fits(daily_budget, current_cost, activity)
                 THEN \E transport_time \in TransportTimeDraws,
                         transport_cost \in TransportCostDraws :
                        /\ selected_items' = Append(selected_items,
                              ItineraryItem(activity, current_time,
                                            transport_time, transport_cost))
                        /\ current_cost' = current_cost + activity.cost + transport_cost
                        /\ current_time' = current_time + activity.duration_minutes
                                                        + transport_time
                 ELSE UNCHANGED <<selected_items, current_cost, current_time>>
    /\ UNCHANGED <<config, population, best_solution, best_score, control,
                   itinerary_locals, breed_locals, cancelled_at>>

\* The end of _generate_random_day and lines 323-324 of its caller.
FinishDay ==
    /\ pc = "day_loop"
    /\ ~DayLoopCondition
    /\ \E weather \in WeatherDraws :
          days' = Append(days, DayPlan(current_date, selected_items, weather))
    /\ current_date' = current_date + MinutesPerDay
    /\ available_activities' = <<>>
    /\ selected_items' = <<>>
    /\ current_time' = 0
    /\ current_cost' = 0
    /\ pc' = "date_loop"
    /\ UNCHANGED <<config, planner, generation, fitness_scores, exception,
                   daily_budget, breed_locals, cancelled_at>>

\* The end of _generate_random_itinerary and one element of the population
\* _initialize_population builds.
FinishItinerary ==
    /\ pc = "date_loop"
    /\ current_date > preferences.end_date
    /\ population' = Append(population, Itinerary(days))
    /\ days' = <<>>
    /\ current_date' = 0
    /\ daily_budget' = NoBudget
    /\ pc' = IF Len(population) + 1 >= population_size THEN "generation" ELSE "itinerary"
    /\ UNCHANGED <<config, best_solution, best_score, used_activities, generation,
                   fitness_scores, exception, day_locals, breed_locals,
                   cancelled_at>>

\* _evaluate_population: every individual is scored and caches its score;
\* the first evaluation that raises ends optimize with the exception.
EvaluatePopulation ==
    /\ pc = "generation"
    /\ generation < max_iterations
    /\ IF \E k \in DOMAIN population : EvaluateRaises(preferences, population[k])
       THEN /\ exception' = "ZeroDivisionError"
            /\ pc' = "raised"
            /\ UNCHANGED <<population, fitness_scores>>
       ELSE /\ fitness_scores' =
                  [k \in DOMAIN population |-> evaluate(preferences, population[k])]
            /\ population' =
                  [k \in DOMAIN population |->
                      [population[k] EXCEPT
                          !.fitness_score = evaluate(preferences, population[k])]]
            /\ pc' = "update_best"
            /\ UNCHANGED exception
    /\ UNCHANGED <<config, best_solution, best_score, used_activities, generation,
                   itinerary_locals, day_locals, breed_locals, cancelled_at>>

\* np.argmax: the first index of the maximum.
ArgLast(scores) == Len(scores)

ArgMax(scores) ==
    CHOOSE k \in DOMAIN scores :
        /\ \A j \in DOMAIN scores : scores[j] <= scores[k]
        /\ \A j \in 1..(k - 1) : scores[j] < scores[k]

\* best_score after _update_best_solution has seen the scores of a generation:
\* it is replaced only by a strictly greater maximum.
BestScoreAfterLast(scores, best) == scores[Len(scores)]

BestScoreAfter(scores, best) ==
    LET max_score == scores[ArgMax(scores)]
    IN  IF max_score > best THEN max_score ELSE best

\* _update_best_solution; np.argmax of an empty list raises ValueError.
UpdateBest ==
    /\ pc = "update_best"
    /\ IF fitness_scores = <<>>
       THEN /\ exception' = "ValueError"
            /\ pc' = "raised"
            /\ UNCHANGED <<best_score, best_solution>>
       ELSE LET max_idx == ArgMax(fitness_scores)
                max_score == fitness_scores[max_idx]
            IN  /\ best_score' = BestScoreAfter(fitness_scores, best_score)
                /\ best_solution' = IF max_score > best_score
                                    THEN clone(population[max_idx])
                                    ELSE best_solution
                /\ pc' = "breed"
                /\ UNCHANGED exception
    /\ UNCHANGED <<config, population, used_activities, generation, fitness_scores,
                   itinerary_locals, day_locals, breed_locals, cancelled_at>>

\* np.argsort: the indices in ascending order of score; equal scores keep
\* their index order (the insertion sort numpy uses on short arrays).
ArgSort(scores) ==
    LET Before(a, b) == scores[a] < scores[b] \/ (scores[a] = scores[b] /\ a < b)
        Rank(a) == Cardinality({b \in DOMAIN scores : Before(b, a)}) + 1
    IN  [r \in DOMAIN scores |-> CHOOSE a \in DOMAIN scores : Rank(a) = r]

\* s[-n:]
FirstN(s, n) == IF n >= Len(s) THEN s ELSE SubSeq(s, 1, n)

LastN(s, n) == IF n >= Len(s) THEN s ELSE SubSeq(s, Len(s) - n + 1, Len(s))

EliteSize(size) == Max(2, size \div 10)

\* _create_next_generation, lines 384-389: the clones of the elite.
Elitism ==
    /\ pc = "breed"
    /\ LET elite_indices == LastN(ArgSort(fitness_scores), EliteSize(population_size))
       IN  new_population' =
               [k \in DOMAIN elite_indices |-> clone(population[elite_indices[k]])]
    /\ pc' = "fill"
    /\ UNCHANGED <<config, planner, generation, fitness_scores, exception,
                   itinerary_locals, day_locals, breeder, cancelled_at>>

\* _tournament_selection: the indices it can return. The sample holds
\* min(k, len) distinct indices in random order and max keeps the first of
\* the best, so any best index of any sample can win.
TournamentSize == 3

TournamentWinners(scores) ==
    LET size == Min(TournamentSize, Len(scores))
        samples == {S \in SUBSET (DOMAIN scores) : Cardinality(S) = size}
    IN  {b \in DOMAIN scores :
            \E S \in samples : b \in S /\ \A j \in S : scores[j] <= scores[b]}

\* The children under construction.
Busy == {w \in DOMAIN breeder : breeder[w].pc # "idle"}

\* _create_next_generation, lines 392-394: the loop test and both selections.
SelectParents(w) ==
    /\ pc = "fill"
    /\ breeder[w].pc = "idle"
    /\ Len(new_population) + Cardinality(Busy) < population_size
    /\ \E p1 \in TournamentWinners(fitness_scores),
          p2 \in TournamentWinners(fitness_scores) :
          breeder' = [breeder EXCEPT ![w] =
              [IdleBreeder EXCEPT !.pc = "crossover",
                                  !.parent1 = population[p1],
                                  !.parent2 = population[p2]]]
    /\ UNCHANGED <<config, planner, control, itinerary_locals, day_locals,
                   new_population, cancelled_at>>

\* _crossover, lines 415-420: parents of different lengths give a clone of
\* one of them; otherwise the tracking set is cleared for the child.
CrossoverBeginKeep(w) ==
    /\ pc = "fill"
    /\ breeder[w].pc = "crossover"
    /\ IF Len(breeder[w].parent1.days) # Len(breeder[w].parent2.days)
       THEN \E parent \in {breeder[w].parent1, breeder[w].parent2} :
                breeder' = [breeder EXCEPT ![w].pc = "mutate",
                                           ![w].child = clone(parent)]
       ELSE breeder' = [breeder EXCEPT ![w].pc = "crossover_day",
                                       ![w].child_days = <<>>,
                                       ![w].i = 1]
    /\ UNCHANGED <<config, planner, control, itinerary_locals, day_locals,
                   new_population, cancelled_at>>

CrossoverBegin(w) ==
    /\ pc = "fill"
    /\ breeder[w].pc = "crossover"
    /\ IF Len(breeder[w].parent1.days) # Len(breeder[w].parent2.days)
       THEN /\ \E parent \in {breeder[w].parent1, breeder[w].parent2} :
                  breeder' = [breeder EXCEPT ![w].pc = "mutate",
                                             ![w].child = clone(parent)]
            /\ UNCHANGED used_activities
       ELSE /\ used_activities' = {}
            /\ breeder' = [breeder EXCEPT ![w].pc = "crossover_day",
                                          ![w].child_days = <<>>,
                                          ![w].i = 1]
    /\ UNCHANGED <<config, population, best_solution, best_score, control,
                   itinerary_locals, day_locals, new_population, cancelled_at>>

\* _crossover, lines 427-431: the items of the selected day whose activity
\* is not tracked yet, each tracked as it is kept.
ValidItemsUnfiltered(items, used) == items

RECURSIVE ValidItems(_, _)
ValidItems(items, used) ==
    IF items = <<>> THEN <<>>
    ELSE IF Head(items).activity.id \notin used
         THEN <<Head(items)>>
                 \o ValidItems(Tail(items), used \cup {Head(items).activity.id})
         ELSE ValidItems(Tail(items), used)

ItemIds(items) == {items[k].activity.id : k \in DOMAIN items}

\* _crossover, lines 434-438: the child's day takes the date and the weather
\* of the selected day.
CrossoverDayPlanSunny(selected_day, valid_items) ==
    DayPlan(selected_day.date, valid_items, SUNNY)

CrossoverDayPlan(selected_day, valid_items) ==
    DayPlan(selected_day.date, valid_items, selected_day.weather)

\* A pass that keeps the items and tracks none of them.
CrossoverDayUntracked(w) ==
    /\ pc = "fill"
    /\ breeder[w].pc = "crossover_day"
    /\ breeder[w].i <= Len(breeder[w].parent1.days)
    /\ \E selected_day \in {breeder[w].parent1.days[breeder[w].i],
                            breeder[w].parent2.days[breeder[w].i]} :
          LET valid_items == ValidItems(selected_day.items, used_activities)
          IN  /\ used_activities' = used_activities
              /\ breeder' = [breeder EXCEPT
                    ![w].child_days = Append(breeder[w].child_days,
                        CrossoverDayPlan(selected_day, valid_items)),
                    ![w].i = breeder[w].i + 1]
    /\ UNCHANGED <<config, population, best_solution, best_score, control,
                   itinerary_locals, day_locals, new_population, cancelled_at>>

\* One pass of the loop of _crossover over the days.
CrossoverDay(w) ==
    /\ pc = "fill"
    /\ breeder[w].pc = "crossover_day"
    /\ breeder[w].i <= Len(breeder[w].parent1.days)
    /\ \E selected_day \in {breeder[w].parent1.days[breeder[w].i],
                            breeder[w].parent2.days[breeder[w].i]} :
          LET valid_items == ValidItems(selected_day.items, used_activities)
          IN  /\ used_activities' = used_activities \cup ItemIds(valid_items)
              /\ breeder' = [breeder EXCEPT
                    ![w].child_days = Append(breeder[w].child_days,
                        CrossoverDayPlan(selected_day, valid_items)),
                    ![w].i = breeder[w].i + 1]
    /\ UNCHANGED <<config, population, best_solution, best_score, control,
                   itinerary_locals, day_locals, new_population, cancelled_at>>

\* _crossover, line 440.
CrossoverEnd(w) ==
    /\ pc = "fill"
    /\ breeder[w].pc = "crossover_day"
    /\ breeder[w].i > Len(breeder[w].parent1.days)
    /\ breeder' = [breeder EXCEPT ![w].pc = "mutate",
                                  ![w].child = Itinerary(breeder[w].child_days),
                                  ![w].child_days = <<>>,
                                  ![w].i = 0]
    /\ UNCHANGED <<config, planner, control, itinerary_locals, day_locals,
                   new_population, cancelled_at>>

\* The child handed on by the mutation step, or the exception it raised.
Mutated(w, child) ==
    /\ breeder' = [breeder EXCEPT ![w].pc = "append", ![w].child = child]
    /\ UNCHANGED <<pc, exception>>

\* _create_next_generation, line 400: random.random() >= mutation_rate.
NoMutation(w) ==
    /\ pc = "fill"
    /\ breeder[w].pc = "mutate"
    /\ Mutated(w, breeder[w].child)
    /\ UNCHANGED <<config, planner, generation, fitness_scores, itinerary_locals,
                   day_locals, new_population, cancelled_at>>

\* A swap that hands item1 to day2 and gives nothing back.
mutate_swap_one_way(itinerary_days) ==
    IF Len(itinerary_days) < 2 THEN {itinerary_days}
    ELSE UNION {
        LET day1 == itinerary_days[pair[1]]
            day2 == itinerary_days[pair[2]]
            d1 == pair[1]
            d2 == pair[2]
        IN  IF day1.items # <<>> /\ day2.items # <<>>
            THEN {[itinerary_days EXCEPT
                     ![d1].items = ListRemove(day1.items, item1),
                     ![d2].items = Append(day2.items, item1)] :
                  item1 \in Range(day1.items)}
            ELSE {itinerary_days} :
        pair \in {q \in (DOMAIN itinerary_days) \X (DOMAIN itinerary_days) :
                      q[1] # q[2]}}

\* _mutate_swap on the days of the clone: the days it can leave behind.
mutate_swap(itinerary_days) ==
    IF Len(itinerary_days) < 2 THEN {itinerary_days}
    ELSE UNION {
        LET day1 == itinerary_days[pair[1]]
            day2 == itinerary_days[pair[2]]
            d1 == pair[1]
            d2 == pair[2]
        IN  IF day1.items # <<>> /\ day2.items # <<>>
            THEN {[itinerary_days EXCEPT
                     ![d1].items = Append(ListRemove(day1.items, item1), item2),
                     ![d2].items = Append(ListRemove(day2.items, item2), item1)] :
                  item1 \in Range(day1.items), item2 \in Range(day2.items)}
            ELSE {itinerary_days} :
        pair \in {q \in (DOMAIN itinerary_days) \X (DOMAIN itinerary_days) :
                      q[1] # q[2]}}

\* _mutate with _mutate_swap drawn.
MutateSwap(w) ==
    /\ pc = "fill"
    /\ breeder[w].pc = "mutate"
    /\ LET mutated == clone(breeder[w].child)
       IN  \E new_days \in mutate_swap(mutated.days) :
               Mutated(w, [mutated EXCEPT !.days = new_days])
    /\ UNCHANGED <<config, planner, generation, fitness_scores, itinerary_locals,
                   day_locals, new_population, cancelled_at>>

\* A ceiling of five times the old cost.
ReplaceCeilingWide(old_item) == Budget(old_item.activity.cost * 5, 1)

\* The ceiling _mutate_replace asks for: old_item.activity.cost * 1.2.
ReplaceCeiling(old_item) == Budget(old_item.activity.cost * 12, 10)

\* _mutate with _mutate_replace drawn; set.remove of an id that is not
\* tracked raises KeyError.
MutateReplace(w) ==
    /\ pc = "fill"
    /\ breeder[w].pc = "mutate"
    /\ LET mutated == clone(breeder[w].child)
       IN  IF mutated.days = <<>>
           THEN Mutated(w, mutated) /\ UNCHANGED used_activities
           ELSE \E d \in DOMAIN mutated.days :
                  IF mutated.days[d].items = <<>>
                  THEN Mutated(w, mutated) /\ UNCHANGED used_activities
                  ELSE \E old_item \in Range(mutated.days[d].items) :
                    IF old_item.activity.id \notin used_activities
                    THEN /\ exception' = "KeyError"
                         /\ pc' = "raised"
                         /\ UNCHANGED <<used_activities, breeder>>
                    ELSE LET released == used_activities \ {old_item.activity.id}
                             available == get_available_activities(activities,
                                              released, ReplaceCeiling(old_item))
                         IN  IF available # <<>>
                             THEN \E new_activity \in Range(available) :
                                    /\ used_activities' = released \cup {new_activity.id}
                                    /\ Mutated(w, [mutated EXCEPT ![
                                         "days"][d].items =
                                           Append(ListRemove(mutated.days[d].items, old_item),
                                                  ItineraryItem(new_activity,
                                                                old_item.start_time,
                                                                old_item.transport_time,
                                                                old_item.transport_cost))])
                             ELSE /\ used_activities' =
                                        released \cup {old_item.activity.id}
                                  /\ Mutated(w, mutated)
    /\ UNCHANGED <<config, population, best_solution, best_score, generation,
                   fitness_scores, itinerary_locals, day_locals, new_population,
                   cancelled_at>>

\* A shuffle that hands every item the start time of the position it lands on.
ShufflesRetimed(items) ==
    {[k \in DOMAIN items |->
         [items[p[k]] EXCEPT !.start_time = items[k].start_time]] :
     p \in Permutations(DOMAIN items)}

\* random.shuffle: every order of the list.
Shuffles(items) ==
    {[k \in DOMAIN items |-> items[p[k]]] : p \in Permutations(DOMAIN items)}

\* _mutate with _mutate_shuffle drawn.
MutateShuffle(w) ==
    /\ pc = "fill"
    /\ breeder[w].pc = "mutate"
    /\ LET mutated == clone(breeder[w].child)
       IN  IF mutated.days = <<>>
           THEN Mutated(w, mutated)
           ELSE \E d \in DOMAIN mutated.days :
                  IF Len(mutated.days[d].items) > 1
                  THEN \E shuffled \in Shuffles(mutated.days[d].items) :
                          Mutated(w, [mutated EXCEPT !["days"][d].items = shuffled])
                  ELSE Mutated(w, mutated)
    /\ UNCHANGED <<config, planner, generation, fitness_scores, itinerary_locals,
                   day_locals, new_population, cancelled_at>>

\* _create_next_generation, line 403.
AppendChild(w) ==
    /\ pc = "fill"
    /\ breeder[w].pc = "append"
    /\ new_population' = Append(new_population, breeder[w].child)
    /\ breeder' = [breeder EXCEPT ![w] = IdleBreeder]
    /\ UNCHANGED <<config, planner, control, itinerary_locals, day_locals,
                   cancelled_at>>

\* The generation after which optimize tests for convergence.
ConvergenceGeneration == 100

\* np.std(fitness_scores) < 0.01, on the scores in thousandths: the variance
\* (n * sum of squares - square of the sum) / n^2 is below 10^2.
ScoresConvergedAlways(scores) == TRUE

ScoresConverged(scores) ==
    LET y == [k \in DOMAIN scores |-> scores[k] \div 100]
        n == Len(scores)
        sum == SumSeq(y)
        squares == SumSeq([k \in DOMAIN y |-> y[k] * y[k]])
    IN  n * squares - sum * sum < 100 * n * n

\* optimize, lines 302-307, once the loop of _create_next_generation is over:
\* the new population replaces the old one, and the run stops on convergence.
EndGenerationStay ==
    /\ pc = "fill"
    /\ Busy = {}
    /\ Len(new_population) >= population_size
    /\ population' = SubSeq(new_population, 1, population_size)
    /\ new_population' = <<>>
    /\ fitness_scores' = <<>>
    /\ IF generation > ConvergenceGeneration /\ ScoresConverged(fitness_scores)
       THEN pc' = "done" /\ UNCHANGED generation
       ELSE pc' = "generation" /\ UNCHANGED generation
    /\ UNCHANGED <<config, best_solution, best_score, used_activities, exception,
                   itinerary_locals, day_locals, breeder, cancelled_at>>

EndGeneration ==
    /\ pc = "fill"
    /\ Busy = {}
    /\ Len(new_population) >= population_size
    /\ population' = SubSeq(new_population, 1, population_size)
    /\ new_population' = <<>>
    /\ fitness_scores' = <<>>
    /\ IF generation > ConvergenceGeneration /\ ScoresConverged(fitness_scores)
       THEN pc' = "done" /\ UNCHANGED generation
       ELSE pc' = "generation" /\ generation' = generation + 1
    /\ UNCHANGED <<config, best_solution, best_score, used_activities, exception,
                   itinerary_locals, day_locals, breeder, cancelled_at>>

\* optimize, line 309, after the last generation: best_solution is returned.
Return ==
    /\ pc = "generation"
    /\ generation >= max_iterations
    /\ pc' = "done"
    /\ UNCHANGED <<config, planner, generation, fitness_scores, exception,
                   itinerary_locals, day_locals, breed_locals, cancelled_at>>

\* A cancellation or deadline signal is sent to a running optimize. No line of
\* optimize reads it.
Cancel ==
    /\ pc \notin {"start", "done", "raised"}
    /\ cancelled_at = -1
    /\ cancelled_at' = generation
    /\ UNCHANGED <<config, planner, control, itinerary_locals, day_locals,
                   breed_locals>>

Build ==
    \/ OptimizeStart
    \/ BeginItinerary
    \/ EmptyDay
    \/ BeginDay
    \/ DrawActivity
    \/ FinishDay
    \/ FinishItinerary

Breed(w) ==
    \/ SelectParents(w)
    \/ CrossoverBegin(w)
    \/ CrossoverDay(w)
    \/ CrossoverEnd(w)
    \/ NoMutation(w)
    \/ MutateSwap(w)
    \/ MutateReplace(w)
    \/ MutateShuffle(w)
    \/ AppendChild(w)

Next ==
    \/ Build
    \/ EvaluatePopulation
    \/ UpdateBest
    \/ Elitism
    \/ \E w \in DOMAIN breeder : Breed(w)
    \/ EndGeneration
    \/ Return

\* One call of optimize on a freshly constructed planner.
Spec == Init /\ [][Next]_vars

\* optimize with a cancellation signal that may arrive at any point of the run.
InitCancel ==
    \E n \in {0, NumActivities} :
        Constructed(Catalog(n), BasePreferences, PopulationSize, MaxIterations)

NextCancel ==
    \/ Next
    \/ Cancel

SpecCancel == InitCancel /\ [][NextCancel]_vars

\* ------------------------------------------------ crossover on any two parents

\* The longest parent handed to _crossover on its own.
MaxCrossDays == 2

\* A parent of n days that starts on day `start`: day d holds the one activity
\* (d + rot) mod NumActivities + 1, or nothing when rot < 0, and the weather
\* alternates from day to day.
CrossParent(n, start, rot, flip) ==
    Itinerary([d \in 1..n |->
        DayPlan(At(start + d - 1, 9, 0),
                IF rot < 0 THEN <<>>
                ELSE <<ItineraryItem(Activity(((d + rot) % NumActivities) + 1),
                                     At(start + d - 1, 9, 0), 10, 3)>>,
                IF (d + flip) % 2 = 0 THEN SUNNY ELSE RAINY)])

\* A parent of n days whose every day holds activities 1, 2 and 1 again.
CrossParentFull(n) ==
    Itinerary([d \in 1..n |->
        DayPlan(At(d - 1, 9, 0),
                <<ItineraryItem(Activity(1), At(d - 1, 9, 0), 10, 3),
                  ItineraryItem(Activity(2), At(d - 1, 10, 0), 20, 3),
                  ItineraryItem(Activity(1), At(d - 1, 11, 0), 10, 8)>>,
                CLOUDY)])

CrossParents ==
    {CrossParent(n, start, rot, flip) :
        n \in 1..MaxCrossDays, start \in {0, 3},
        rot \in -1..(NumActivities - 1), flip \in {0, 1}}
        \cup {CrossParentFull(n) : n \in 1..MaxCrossDays}

\* _crossover is about to run on two parents; the tracking set holds whatever
\* the last construction left in it.
InitCross ==
    \E p1 \in CrossParents, p2 \in CrossParents, used \in {{}, {1}} :
        /\ activities = Catalog(NumActivities)
        /\ preferences = BasePreferences
        /\ population_size = PopulationSize
        /\ max_iterations = MaxIterations
        /\ population = <<>>
        /\ best_solution = None
        /\ best_score = 0
        /\ used_activities = used
        /\ pc = "fill"
        /\ generation = 0
        /\ fitness_scores = <<>>
        /\ exception = "none"
        /\ days = <<>>
        /\ current_date = 0
        /\ daily_budget = NoBudget
        /\ available_activities = <<>>
        /\ selected_items = <<>>
        /\ current_time = 0
        /\ current_cost = 0
        /\ new_population = <<>>
        /\ breeder = [w \in {1} |->
              [IdleBreeder EXCEPT !.pc = "crossover", !.parent1 = p1, !.parent2 = p2]]
        /\ cancelled_at = -1

NextCross ==
    \E w \in DOMAIN breeder :
        \/ CrossoverBegin(w)
        \/ CrossoverDay(w)
        \/ CrossoverEnd(w)

\* One call of _crossover.
SpecCross == InitCross /\ [][NextCross]_vars

\* ----------------------------------------- two children built at the same time

\* The first individual of an initial population of four: one activity a day.
\* The second holds the last activity of the catalog, the others are empty.
FirstIndividual(a, b) ==
    Itinerary(<<DayPlan(At(0, 9, 0),
                        <<ItineraryItem(Activity(a), At(0, 9, 0), 10, 3)>>, RAINY),
                DayPlan(At(1, 9, 0),
                        <<ItineraryItem(Activity(b), At(1, 9, 0), 20, 3)>>, RAINY)>>)

SecondIndividual ==
    Itinerary(<<DayPlan(At(0, 9, 0),
                        <<ItineraryItem(Activity(3), At(0, 9, 0), 10, 3)>>, RAINY),
                DayPlan(At(1, 9, 0), <<>>, RAINY)>>)

EmptyIndividual ==
    Itinerary(<<DayPlan(At(0, 9, 0), <<>>, RAINY), DayPlan(At(1, 9, 0), <<>>, RAINY)>>)

Scored(prefs, individuals) ==
    [k \in DOMAIN individuals |-> evaluate(prefs, individuals[k])]

\* The children the first generation can get from a parent: its crossover with
\* itself, swapped or not.
ChildrenOf(parent) ==
    {Itinerary(new_days) : new_days \in mutate_swap(clone(parent).days)}
        \cup {clone(parent)}

\* The second generation of a planner of four, about to be evaluated: the two
\* elites of the first and two children of the first individual, which wins
\* every tournament it is drawn into without the second individual. Its two
\* new children are then built by two constructors at once.
InitBreed2 ==
    \E a \in {1, 2} :
      \E c3 \in ChildrenOf(FirstIndividual(a, 3 - a)),
         c4 \in ChildrenOf(FirstIndividual(a, 3 - a)) :
        LET first == <<FirstIndividual(a, 3 - a), SecondIndividual,
                       EmptyIndividual, EmptyIndividual>>
            scores == Scored(BasePreferences, first)
            elite_indices == LastN(ArgSort(scores), EliteSize(4))
        IN  /\ 1 \in TournamentWinners(scores)
            /\ activities = Catalog(3)
            /\ preferences = BasePreferences
            /\ population_size = 4
            /\ max_iterations = 2
            /\ population = [k \in DOMAIN elite_indices |->
                                clone(first[elite_indices[k]])] \o <<c3, c4>>
            /\ best_solution = clone(first[ArgMax(scores)])
            /\ best_score = BestScoreAfter(scores, 0)
            /\ used_activities = IdSet(c4)
            /\ pc = "generation"
            /\ generation = 1
            /\ fitness_scores = <<>>
            /\ exception = "none"
            /\ days = <<>>
            /\ current_date = 0
            /\ daily_budget = NoBudget
            /\ available_activities = <<>>
            /\ selected_items = <<>>
            /\ current_time = 0
            /\ current_cost = 0
            /\ new_population = <<>>
            /\ breeder = [w \in {1, 2} |-> IdleBreeder]
            /\ cancelled_at = -1

NextBreed2 ==
    \/ EvaluatePopulation
    \/ UpdateBest
    \/ Elitism
    \/ \E w \in DOMAIN breeder : Breed(w)
    \/ EndGeneration
    \/ Return

\* One generation whose children are built by two interleaved constructors
\* on the same planner.
SpecBreed2 == InitBreed2 /\ [][NextBreed2]_vars

\* ----------------------------------------------------------- optimize runs on

\* optimize for every generation cap up to MaxIterations, zero included.
InitLive ==
    \E n \in {0, NumActivities}, prefs \in RunPreferences,
       iterations \in 0..MaxIterations :
        Constructed(Catalog(n), prefs, PopulationSize, iterations)

\* optimize is one thread of straight-line code: whenever it has a next
\* statement, it executes one.
SpecLive == InitLive /\ [][Next]_vars /\ WF_vars(Next)

\* ------------------------------------------- the generations after the 100th

\* The generations left to run when the run is picked up.
LateGenerations == 2

\* The populations of three the run is picked up with: three copies of one
\* individual, or three individuals with three different scores.
LatePopulations ==
    { <<FirstIndividual(1, 2), FirstIndividual(1, 2), FirstIndividual(1, 2)>>,
      <<EmptyIndividual, EmptyIndividual, EmptyIndividual>>,
      <<EmptyIndividual, SecondIndividual, FirstIndividual(1, 2)>> }

\* optimize at the top of its loop for generation 100 or 101, with a cap
\* above 102. The elite of every generation is kept, so the best solution is
\* the best individual of the population.
InitLate ==
    \E individuals \in LatePopulations,
       g \in {ConvergenceGeneration, ConvergenceGeneration + 1} :
        LET scores == Scored(BasePreferences, individuals)
        IN  /\ activities = Catalog(3)
            /\ preferences = BasePreferences
            /\ population_size = 3
            /\ max_iterations = ConvergenceGeneration + 1 + LateGenerations
            /\ population = individuals
            /\ best_solution = clone(individuals[ArgMax(scores)])
            /\ best_score = BestScoreAfter(scores, 0)
            /\ used_activities = IdSet(individuals[3])
            /\ pc = "generation"
            /\ generation = g
            /\ fitness_scores = <<>>
            /\ exception = "none"
            /\ days = <<>>
            /\ current_date = 0
            /\ daily_budget = NoBudget
            /\ available_activities = <<>>
            /\ selected_items = <<>>
            /\ current_time = 0
            /\ current_cost = 0
            /\ new_population = <<>>
            /\ breeder = [w \in {1} |-> IdleBreeder]
            /\ cancelled_at = -1

NextLate ==
    \/ EvaluatePopulation
    \/ UpdateBest
    \/ Elitism
    \/ \E w \in DOMAIN breeder : Breed(w)
    \/ EndGeneration
    \/ Return

\* The last generations of a long run of optimize.
SpecLate == InitLate /\ [][NextLate]_vars

\* ------------------------------------------------- evaluate on any itinerary

\* The most items of a day handed to evaluate on its own.
MaxEvalItems == 2

\* The day plans evaluate is applied to: up to MaxEvalItems distinct catalog
\* activities, each started at 09:00 or at 20:00, under sun or rain.
EvalItemSeqs ==
    UNION {[1..n -> (1..3) \X {9, 20}] : n \in 0..MaxEvalItems}

EvalDay(day, seq, weather) ==
    DayPlan(At(day, 9, 0),
            [k \in DOMAIN seq |->
                ItineraryItem(Activity(seq[k][1]), At(day, seq[k][2], 0), 10, 3)],
            weather)

EvalDays(day) ==
    {EvalDay(day, seq, weather) :
        seq \in {q \in EvalItemSeqs :
                    \A a, b \in DOMAIN q : a # b => q[a][1] # q[b][1]},
        weather \in {SUNNY, RAINY}}

EvalItineraries ==
    {Itinerary(<<d1>>) : d1 \in EvalDays(0)}
        \cup {Itinerary(<<d1, d2>>) : d1 \in EvalDays(0), d2 \in EvalDays(1)}

\* Limited, unlimited (0) and negative budgets, with and without interests.
EvalPreferences ==
    {UserPreferences(At(0, 9, 0), At(1, 9, 0), max_budget, interests) :
        max_budget \in {30, 100, 0, -50}, interests \in {{}, {"historia"}}}

\* A planner whose population is one itinerary, about to be evaluated.
InitEval ==
    \E individual \in EvalItineraries, prefs \in EvalPreferences :
        /\ activities = Catalog(3)
        /\ preferences = prefs
        /\ population_size = 1
        /\ max_iterations = 1
        /\ population = <<individual>>
        /\ best_solution = None
        /\ best_score = 0
        /\ used_activities = {}
        /\ pc = "generation"
        /\ generation = 0
        /\ fitness_scores = <<>>
        /\ exception = "none"
        /\ days = <<>>
        /\ current_date = 0
        /\ daily_budget = NoBudget
        /\ available_activities = <<>>
        /\ selected_items = <<>>
        /\ current_time = 0
        /\ current_cost = 0
        /\ new_population = <<>>
        /\ breeder = [w \in {1} |-> IdleBreeder]
        /\ cancelled_at = -1

NextEval == EvaluatePopulation

\* One call of _evaluate_population.
SpecEval == InitEval /\ [][NextEval]_vars

\* ------------------------------------------------ one mutation on any child

\* The most items of a day of a child handed to a mutation on its own.
MaxMutateItems == 2

\* The sequences of pairwise distinct catalog indices of a day.
MutateSeqs ==
    {q \in UNION {[1..n -> 1..NumActivities] : n \in 0..MaxMutateItems} :
        \A a, b \in DOMAIN q : a # b => q[a] # q[b]}

\* Day d with the activities of seq: item k starts 5 hours after item k - 1
\* and every item has transport fields of its own.
MutateDay(d, seq) ==
    DayPlan(At(d - 1, 9, 0),
            [k \in DOMAIN seq |->
                ItineraryItem(Activity(seq[k]), At(d - 1, 4 + 5 * k, 0),
                              10 * k, 3 * d + k)],
            IF d = 1 THEN SUNNY ELSE RAINY)

\* The most days of such a child.
MaxMutateDays == 3

\* The ways to fill n days with sequences that share no activity.
RECURSIVE MutatePlans(_)
MutatePlans(n) ==
    IF n = 0 THEN {<<>>}
    ELSE UNION {{Append(prev, q) :
                    q \in {r \in MutateSeqs :
                              \A d \in DOMAIN prev :
                                  Range(r) \cap Range(prev[d]) = {}}} :
                prev \in MutatePlans(n - 1)}

\* The children: one to MaxMutateDays days, no activity twice, as every
\* individual of a sequential run.
MutateChildren ==
    {Itinerary([d \in DOMAIN q |-> MutateDay(d, q[d])]) :
        q \in UNION {MutatePlans(n) : n \in 1..MaxMutateDays}}

\* _mutate is about to run on a child. The tracking set holds the child's ids,
\* and in some runs every other id as well; the catalog is the full one or
\* only its first entry.
InitMutate ==
    \E child \in MutateChildren, n \in {1, NumActivities},
       extra \in {{}, 1..NumActivities} :
        /\ activities = Catalog(n)
        /\ preferences = BasePreferences
        /\ population_size = PopulationSize
        /\ max_iterations = MaxIterations
        /\ population = <<>>
        /\ best_solution = None
        /\ best_score = 0
        /\ used_activities = IdSet(child) \cup extra
        /\ pc = "fill"
        /\ generation = 0
        /\ fitness_scores = <<>>
        /\ exception = "none"
        /\ days = <<>>
        /\ current_date = 0
        /\ daily_budget = NoBudget
        /\ available_activities = <<>>
        /\ selected_items = <<>>
        /\ current_time = 0
        /\ current_cost = 0
        /\ new_population = <<>>
        /\ breeder = [w \in {1} |->
              [IdleBreeder EXCEPT !.pc = "mutate", !.child = child]]
        /\ cancelled_at = -1

NextReplace == \E w \in DOMAIN breeder : MutateReplace(w)

\* One call of _mutate that draws _mutate_replace.
SpecReplace == InitMutate /\ [][NextReplace]_vars

NextSwap == \E w \in DOMAIN breeder : MutateSwap(w)

\* One call of _mutate that draws _mutate_swap.
SpecSwap == InitMutate /\ [][NextSwap]_vars

NextShuffle == \E w \in DOMAIN breeder : MutateShuffle(w)

\* One call of _mutate that draws _mutate_shuffle.
SpecShuffle == InitMutate /\ [][NextShuffle]_vars

\* ---------------------------------------------- runs that can score nothing

\* Preference sets with a positive budget: the dataclass defaults, whose
\* max_daily_duration of 480 minutes a single long activity exceeds, and a
\* range whose end_date lies before its start_date.
ZeroPreferences ==
    { UserPreferences(At(0, 9, 0), At(1, 9, 0), 100, {"historia"}),
      UserPreferences(At(1, 9, 0), At(0, 9, 0), 100, {}) }

\* optimize on the runs of Init, and on the full catalog with these
\* preferences and a population of one or of PopulationSize.
InitZero ==
    \/ Init
    \/ \E prefs \in ZeroPreferences, size \in {1, PopulationSize} :
          Constructed(Catalog(NumActivities), prefs, size, MaxIterations)

SpecZero == InitZero /\ [][Next]_vars

\* ------------------------------------------------------------------- claims

\* Every itinerary the planner holds: the population, the next generation
\* under construction, finished children and the best solution.
Held ==
    Range(population) \cup Range(new_population)
        \cup {breeder[w].child : w \in {v \in DOMAIN breeder :
                                          breeder[v].pc \in {"mutate", "append"}}}
        \cup (IF IsNone(best_solution) THEN {} ELSE {best_solution})

Unique(itinerary) ==
    LET ids == ActivityIds(itinerary)
    IN  \A a, b \in DOMAIN ids : a # b => ids[a] # ids[b]

\* C1: in every itinerary of every generation (initial, elite copy, crossover
\* child, mutated child) and in the itinerary optimize returns, the activity
\* ids of all the items of all the days are pairwise distinct.
C1_Uniqueness == \A itinerary \in Held : Unique(itinerary)

\* C1's case: a crossover has just dropped an item of the day it selected,
\* because its activity was already in the child.
C1_Witness ==
    \E w \in DOMAIN breeder :
        /\ breeder[w].pc = "mutate"
        /\ Len(breeder[w].parent1.days) = Len(breeder[w].parent2.days)
        /\ \E d \in DOMAIN breeder[w].child.days :
              breeder[w].child.days[d].items \notin
                  {breeder[w].parent1.days[d].items, breeder[w].parent2.days[d].items}

\* The itineraries that are complete: held, or just built by
\* _generate_random_itinerary.
Built ==
    Held \cup (IF pc = "date_loop" /\ current_date > preferences.end_date
               THEN {Itinerary(days)} ELSE {})

\* C2: every itinerary that is built, bred or returned has as many DayPlans
\* as there are calendar days in the inclusive range [start_date, end_date],
\* also when start and end carry different times of day.
C2_Shape ==
    \A itinerary \in Built :
        Len(itinerary.days) =
            CalendarDays(preferences.start_date, preferences.end_date)

\* C3: with max_budget <= 0, evaluating an itinerary of at least one day does
\* not fail, and the cost score is 1.0.
C3_UnlimitedBudget ==
    (/\ preferences.max_budget <= 0
     /\ pc \in {"update_best", "raised"}
     /\ \A k \in DOMAIN population : population[k].days # <<>>)
    => /\ exception = "none"
       /\ \A k \in DOMAIN population : cost_score(preferences, population[k]) = One

\* C4: best_score never decreases from one step of optimize to the next.
C4_BestScoreMonotonic == [][best_score' >= best_score]_vars

\* C4's case: the second generation has been evaluated and its child scored
\* strictly more than every elite, so the best score has risen a second time.
C4_Witness ==
    /\ pc = "breed"
    /\ generation = 1
    /\ \E k \in DOMAIN fitness_scores :
          /\ fitness_scores[k] = best_score
          /\ \A j \in DOMAIN fitness_scores : j # k => fitness_scores[j] < best_score
          /\ k > EliteSize(population_size)

\* C5: with an empty catalog optimize raises nothing and returns an Itinerary
\* (not None) with one DayPlan per day of the date range, each without items.
C5_EmptyCatalog ==
    activities = <<>> =>
        /\ exception = "none"
        /\ pc = "done" =>
              /\ ~IsNone(best_solution)
              /\ Len(best_solution.days) =
                    CalendarDays(preferences.start_date, preferences.end_date)
              /\ \A d \in DOMAIN best_solution.days : best_solution.days[d].items = <<>>

\* C6: the score of an itinerary whose days are all empty, as built from an
\* empty catalog, is 0.
C6_EmptyScoreZero ==
    (activities = <<>> /\ pc = "update_best") =>
        \A k \in DOMAIN fitness_scores : fitness_scores[k] = 0

\* The ids scheduled in the plan under construction: the days of the
\* itinerary built so far.
PlanIds == UNION {ItemIds(days[d].items) : d \in DOMAIN days}

\* C7: while a plan is built, the candidate pool query returns only catalog
\* activities that the plan does not use and that cost at most the ceiling
\* (any cost when the ceiling is <= 0), and all of them as long as nothing has
\* been drawn for the plan; so every individual of the initial population is
\* offered every activity it does not itself contain.
C7_CandidatePool ==
    (pc = "date_loop" /\ current_date <= preferences.end_date) =>
        LET offered == Range(get_available_activities(activities, used_activities,
                                                      daily_budget))
            unused == {a \in Range(activities) :
                         /\ a.id \notin PlanIds
                         /\ \/ daily_budget.num <= 0
                            \/ a.cost * daily_budget.den <= daily_budget.num}
        IN  /\ offered \subseteq unused
            /\ current_date = preferences.start_date => offered = unused

\* C9: a run that received a cancellation signal before its last generation
\* stops before the generation cap and returns the best solution so far.
C9_Cancellation ==
    (/\ cancelled_at >= 0
     /\ cancelled_at < max_iterations - 1
     /\ pc = "done")
    => generation < max_iterations

\* C8: when the construction of two children on the same planner is
\* interleaved, each child still has pairwise distinct activity ids.
C8_ConcurrentBreeding ==
    /\ \A w \in DOMAIN breeder :
          breeder[w].pc \in {"mutate", "append"} => Unique(breeder[w].child)
    /\ \A k \in DOMAIN new_population : Unique(new_population[k])

\* C10: the child of a crossover has as many days as its parents when they
\* have the same number, and then each of its days carries the date and the
\* weather of that day of one parent; parents of different lengths give a
\* copy of one whole parent.
C10_CrossoverShape ==
    \A w \in DOMAIN breeder :
        breeder[w].pc = "mutate" =>
            LET p1 == breeder[w].parent1
                p2 == breeder[w].parent2
                child == breeder[w].child
            IN  IF Len(p1.days) = Len(p2.days)
                THEN /\ Len(child.days) = Len(p1.days)
                     /\ \A d \in DOMAIN child.days :
                           \E p \in {p1, p2} :
                               /\ child.days[d].date = p.days[d].date
                               /\ child.days[d].weather = p.days[d].weather
                ELSE child.days \in {p1.days, p2.days}

\* C10's case: a crossover of two parents of two days with different dates
\* has returned a child whose first day is the first parent's and whose
\* second day is the second parent's.
C10_Witness ==
    \E w \in DOMAIN breeder :
        /\ breeder[w].pc = "mutate"
        /\ Len(breeder[w].parent1.days) = 2
        /\ Len(breeder[w].parent2.days) = 2
        /\ breeder[w].parent1.days[1].date # breeder[w].parent2.days[1].date
        /\ breeder[w].child.days[1].date = breeder[w].parent1.days[1].date
        /\ breeder[w].child.days[2].date = breeder[w].parent2.days[2].date

\* The positions of a parent day that a crossover keeps: the activity is not
\* in the earlier days of the child and not earlier in the day itself.
KeptIndices(items, earlier) ==
    {k \in DOMAIN items :
        /\ items[k].activity.id \notin earlier
        /\ \A j \in 1..(k - 1) : items[j].activity.id # items[k].activity.id}

\* The items of a day at the positions K, in the order of the day.
SubSeqAt(items, K) ==
    LET F[k \in 0..Len(items)] ==
            IF k = 0 THEN <<>>
            ELSE IF k \in K THEN Append(F[k - 1], items[k]) ELSE F[k - 1]
    IN  F[Len(items)]

\* The ids of the days of a child before day d.
EarlierIds(child, d) ==
    UNION {ItemIds(child.days[e].items) : e \in 1..(d - 1)}

\* C11: every day of a crossover child holds, in the parent's order, exactly
\* the items of that day of one parent whose activity occurs neither in the
\* earlier days of the child nor earlier in the day; what the tracking set
\* held before the crossover has no part in it.
C11_FirstOccurrence ==
    \A w \in DOMAIN breeder :
        (/\ breeder[w].pc = "mutate"
         /\ Len(breeder[w].parent1.days) = Len(breeder[w].parent2.days))
        => \A d \in DOMAIN breeder[w].child.days :
              \E p \in {breeder[w].parent1, breeder[w].parent2} :
                  breeder[w].child.days[d].items =
                      SubSeqAt(p.days[d].items,
                               KeptIndices(p.days[d].items,
                                           EarlierIds(breeder[w].child, d)))

\* C11's case: a crossover kept activities 1 and 2 of a first day that holds
\* activity 1 twice, and then nothing of a second day that holds them again.
C11_Witness ==
    \E w \in DOMAIN breeder :
        /\ breeder[w].pc = "mutate"
        /\ Len(breeder[w].parent1.days) = 2
        /\ Len(breeder[w].parent2.days) = 2
        /\ Len(breeder[w].parent1.days[1].items) = 3
        /\ Len(breeder[w].child.days[1].items) = 2
        /\ Len(breeder[w].parent1.days[2].items) = 3
        /\ Len(breeder[w].parent2.days[2].items) = 3
        /\ breeder[w].child.days[2].items = <<>>

\* C12: for every itinerary and every preference set with max_budget > 0 the
\* score evaluate returns is at least 0, also when the penalties exceed the
\* weighted sum of the sub-scores.
C12_NonNegativeScore ==
    (preferences.max_budget > 0 /\ pc = "update_best") =>
        /\ \A k \in DOMAIN fitness_scores : fitness_scores[k] >= 0
        /\ \A k \in DOMAIN population : population[k].fitness_score >= 0

\* C12's case: an itinerary has been scored whose penalties exceed the
\* weighted sum of its sub-scores.
C12_Witness ==
    /\ preferences.max_budget > 0
    /\ pc = "update_best"
    /\ \E k \in DOMAIN population :
          /\ calculate_violations(preferences, population[k]) * (10 * One)
                 > WeightedSum(preferences, population[k])
          /\ fitness_scores[k] = 0

\* C13: optimize terminates, by returning or by raising, for every catalog,
\* preference set and generation cap, and never evaluates more than
\* max_iterations generations.
C13_Termination ==
    /\ <>(pc \in {"done", "raised"})
    /\ [](generation <= max_iterations)
    /\ [](pc \in {"update_best", "breed", "fill"} => generation < max_iterations)

\* C13's case: a run over a catalog has returned after its last generation.
C13_Witness ==
    /\ pc = "done"
    /\ activities # <<>>
    /\ max_iterations > 0
    /\ generation = max_iterations
    /\ exception = "none"

\* The scores of a generation are all the same.
AllSame(scores) == \A a, b \in DOMAIN scores : scores[a] = scores[b]

\* The scores of a generation, in thousandths, lie so close together that
\* their standard deviation can be below 0.01: the spread d of n scores has
\* d^2 < 2 * n * 0.01^2.
NearIdentical(scores) ==
    \A a, b \in DOMAIN scores :
        LET d == (scores[a] \div 100) - (scores[b] \div 100)
        IN  d * d < 200 * Len(scores)

\* C14: the generation loop is left before the cap only at a generation
\* g > 100 whose scores are near-identical; and when g > 100 and all the
\* scores of generation g are the same, the loop is left at g, before
\* max_iterations, without evaluating another generation.
C14_ConvergenceStop ==
    [][(pc = "fill" /\ pc' # "fill") =>
          /\ pc' = "done" =>
                /\ generation > 100
                /\ NearIdentical(fitness_scores)
                /\ generation' = generation
          /\ (generation > 100 /\ AllSame(fitness_scores)) =>
                /\ pc' = "done"
                /\ generation' < max_iterations]_vars

\* C14's case: the run has stopped at generation 101, two generations before
\* its cap, on a population whose scores were all the same.
C14_Witness ==
    /\ pc = "done"
    /\ generation = 101
    /\ generation + 1 < max_iterations
    /\ \A a, b \in DOMAIN population :
          evaluate(preferences, population[a]) = evaluate(preferences, population[b])

\* The sets of the n individuals of a generation with the best scores.
TopSets(scores, n) ==
    {E \in SUBSET (DOMAIN scores) :
        /\ Cardinality(E) = Min(n, Len(scores))
        /\ \A e \in E : \A o \in (DOMAIN scores) \ E : scores[o] <= scores[e]}

\* C15: the next generation holds, for each of the top
\* max(2, population_size // 10) individuals of the current one, a copy of
\* its own with the same days, items, timing fields and weather, unchanged by
\* crossover and mutation.
C15_Elitism ==
    [][(pc = "fill" /\ pc' \in {"generation", "done"}) =>
          \E E \in TopSets(fitness_scores, Max(2, population_size \div 10)) :
              \E f \in [E -> DOMAIN population'] :
                  /\ \A a, b \in E : a # b => f[a] # f[b]
                  /\ \A e \in E : population'[f[e]].days = population[e].days]_vars

\* C15's case: a generation of three different scores has been bred in full,
\* and its best individual holds activities.
C15_Witness ==
    /\ pc = "fill"
    /\ Busy = {}
    /\ Len(new_population) >= population_size
    /\ \A a, b \in DOMAIN fitness_scores : a # b => fitness_scores[a] # fitness_scores[b]
    /\ AllItems(population[ArgMax(fitness_scores)]) # <<>>
    /\ new_population[Len(new_population)].days
           \notin {population[k].days : k \in DOMAIN population}

\* The initial population, while it is built and until it is first evaluated.
InitialPopulation ==
    IF generation = 0 /\ pc \in {"itinerary", "date_loop", "day_loop", "generation"}
    THEN Range(population) ELSE {}

\* C16: with max_budget > 0, every day of every individual of the initial
\* population costs, activities and transport together, at most
\* max_budget / number of days, and every initial itinerary at most max_budget.
C16_BudgetSlices ==
    preferences.max_budget > 0 =>
        \A itinerary \in InitialPopulation :
            /\ \A d \in DOMAIN itinerary.days :
                  get_cost(itinerary.days[d])
                        * CalendarDays(preferences.start_date, preferences.end_date)
                     <= preferences.max_budget
            /\ get_total_cost(itinerary) <= preferences.max_budget

\* C17: every item a random day construction appends starts on the plan's
\* own date, at an hour h with daily_start_hour <= h < daily_end_hour, also
\* when a duration carries the clock past midnight.
C17_TimeWindow ==
    \A itinerary \in InitialPopulation :
        \A d \in DOMAIN itinerary.days :
            \A k \in DOMAIN itinerary.days[d].items :
                LET start_time == itinerary.days[d].items[k].start_time
                IN  /\ DateOf(start_time) = DateOf(itinerary.days[d].date)
                    /\ preferences.daily_start_hour <= HourOf(start_time)
                    /\ HourOf(start_time) < preferences.daily_end_hour

\* C18: every item of every itinerary that is built, bred or returned
\* references an activity of the catalog the planner was given.
C18_CatalogReference ==
    \A itinerary \in Built :
        \A d \in DOMAIN itinerary.days :
            \A k \in DOMAIN itinerary.days[d].items :
                itinerary.days[d].items[k].activity \in Range(activities)

\* C18's case: a replace mutation has given a child an activity that neither
\* of its parents holds.
C18_Witness ==
    \E w \in DOMAIN breeder :
        /\ breeder[w].pc = "append"
        /\ ~(IdSet(breeder[w].child)
                \subseteq (IdSet(breeder[w].parent1) \cup IdSet(breeder[w].parent2)))

\* The greatest of a generation's scores.
MaxScore(scores) ==
    CHOOSE m \in Range(scores) : \A k \in DOMAIN scores : scores[k] <= m

\* C19: best_score starts at 0 and each UpdateBest step makes it the maximum
\* of itself and the scores of the generation, so it is the maximum of 0 and
\* all the scores evaluated so far; best_solution changes only when the
\* generation's maximum strictly exceeds best_score, and is then a copy of an
\* individual of the generation that evaluates to exactly best_score; no
\* other step touches either.
C19_UpdateBest ==
    [][IF pc = "update_best" /\ pc' = "breed"
       THEN /\ best_score' = Max(best_score, MaxScore(fitness_scores))
            /\ best_solution' # best_solution =>
                  MaxScore(fitness_scores) > best_score
            /\ ~IsNone(best_solution') =>
                  /\ evaluate(preferences, best_solution') = best_score'
                  /\ best_solution' # best_solution =>
                        \E k \in DOMAIN population :
                            /\ population[k].days = best_solution'.days
                            /\ fitness_scores[k] = best_score'
       ELSE UNCHANGED <<best_score, best_solution>>]_vars

\* C19's case: the second generation has been through UpdateBest with a
\* child that scores less than the best solution, which was kept.
C19_Witness ==
    /\ pc = "breed"
    /\ generation = 1
    /\ best_score > 0
    /\ fitness_scores[Len(fitness_scores)] < best_score
    /\ fitness_scores[Len(fitness_scores)] > 0
    /\ population[Len(population)].days # best_solution.days

\* The days of an itinerary that last longer than max_daily_duration.
LongDays(prefs, itinerary) ==
    {d \in DOMAIN itinerary.days :
        get_duration(itinerary.days[d]) > prefs.max_daily_duration}

\* The days whose walking distance, in metres, exceeds max_walking_distance,
\* in kilometres.
FarDays(prefs, itinerary) ==
    {d \in DOMAIN itinerary.days :
        get_walking_distance(itinerary.days[d]) > prefs.max_walking_distance * 1000}

\* The items that start at an hour outside their activity's opening hours.
ClosedItems(itinerary) ==
    {q \in UNION {{<<d, k>> : k \in DOMAIN itinerary.days[d].items} :
                     d \in DOMAIN itinerary.days} :
        LET item == itinerary.days[q[1]].items[q[2]]
        IN  \/ HourOf(item.start_time) < item.activity.start_hour
            \/ HourOf(item.start_time) >= item.activity.end_hour}

\* 0.5 a long day, 0.3 a far day, 0.2 a closed item and 1.0 once for a
\* positive budget that is exceeded, in tenths.
PenaltySum(prefs, itinerary) ==
      5 * Cardinality(LongDays(prefs, itinerary))
    + 3 * Cardinality(FarDays(prefs, itinerary))
    + 2 * Cardinality(ClosedItems(itinerary))
    + (IF prefs.max_budget > 0 /\ get_total_cost(itinerary) > prefs.max_budget
       THEN 10 ELSE 0)

\* C20: the violation penalty of an itinerary is 0.5 for every day that
\* lasts too long, 0.3 for every day with too much walking, 0.2 for every
\* item outside its activity's hours and 1.0 once when a positive max_budget
\* is exceeded, and nothing for the budget when max_budget <= 0; this is the
\* penalty that the score is reduced by.
C20_PenaltyComposition ==
    \A k \in DOMAIN population :
        /\ calculate_violations(preferences, population[k])
              = PenaltySum(preferences, population[k])
        /\ (pc = "update_best" /\ population[k].days # <<>>) =>
              fitness_scores[k] =
                  Max(0, WeightedSum(preferences, population[k])
                            - PenaltySum(preferences, population[k]) * (10 * One))

\* C20's case: an itinerary has been scored that has a long day, a far day,
\* two closed items and a cost above a positive budget.
C20_Witness ==
    /\ pc = "update_best"
    /\ preferences.max_budget > 0
    /\ \E k \in DOMAIN population :
          /\ get_total_cost(population[k]) > preferences.max_budget
          /\ LongDays(preferences, population[k]) # {}
          /\ FarDays(preferences, population[k]) # {}
          /\ Cardinality(ClosedItems(population[k])) = 2
          /\ calculate_violations(preferences, population[k]) >= 5 + 3 + 2 + 2 + 10
          /\ fitness_scores[k] = 0

\* The ids scheduled in the itinerary under construction: its finished days
\* and the day being built.
ScheduledIds == PlanIds \cup ItemIds(selected_items)

\* C21: in random day construction a drawn activity is marked used before
\* the budget test. Every draw, appended or rejected, is in the used set
\* afterwards; only activities outside the used set are appended; the used
\* set only grows while the population is built; so a rejected activity is
\* scheduled neither later in its day nor in a later day, and after a day is
\* built the used set holds every id scheduled so far.
C21_MarkBeforeFit ==
    [][(pc \in {"date_loop", "day_loop"}) =>
          /\ used_activities \subseteq used_activities'
          /\ (\A a \in Range(available_activities) :
                (pc' = "day_loop" /\ a \notin Range(available_activities'))
                    => a.id \in used_activities')
          /\ pc' = "date_loop" =>
                (\A d \in DOMAIN days' :
                    ItemIds(days'[d].items) \subseteq used_activities')
          /\ (pc' = "day_loop" /\ Len(selected_items') > Len(selected_items)) =>
                selected_items'[Len(selected_items')].activity.id
                    \notin (used_activities \cup ScheduledIds)]_vars

\* C21's case: a two-day itinerary is complete, and an activity that was
\* drawn for it and rejected is in the used set and in none of its days.
C21_Witness ==
    /\ pc = "date_loop"
    /\ current_date > preferences.end_date
    /\ Len(days) = 2
    /\ population = <<>>
    /\ PlanIds # {}
    /\ used_activities \ PlanIds # {}

\* The ids of the items of itinerary_days other than item k of day d.
OtherIds(itinerary_days, d, k) ==
    {itinerary_days[e].items[j].activity.id :
        <<e, j>> \in {q \in UNION {{e} \X DOMAIN itinerary_days[e].items :
                                       e \in DOMAIN itinerary_days} :
                          q # <<d, k>>}}

\* No catalog entry can replace item under the tracking set used: every one
\* is tracked once item's own id is released, or costs more than 1.2 times
\* the positive cost of item's activity.
NoCandidate(item, used) ==
    \A a \in Range(activities) :
        \/ a.id \in used \ {item.activity.id}
        \/ /\ item.activity.cost > 0
           /\ a.cost * 10 > item.activity.cost * 12

\* C22: a replace mutation leaves the number of days and the item count of
\* every day as they were. When it changes the itinerary, one item of one day
\* gave way to a new item that keeps its start_time, transport_time and
\* transport_cost, whose activity is on no other item of the itinerary and
\* costs at most 1.2 times the old activity when that one costs more than 0;
\* the other days are untouched. When no item of the itinerary has a
\* candidate, the itinerary and the tracking set stay as they were.
C22_ReplaceMutation ==
    [][(breeder[1].pc = "mutate" /\ breeder'[1].pc = "append") =>
          LET old == breeder[1].child.days
              new == breeder'[1].child.days
          IN  /\ Len(new) = Len(old)
              /\ (\A d \in DOMAIN old : Len(new[d].items) = Len(old[d].items))
              /\ (new # old) =>
                    (\E d \in DOMAIN old : \E k \in DOMAIN old[d].items :
                        LET old_item == old[d].items[k]
                            last == Len(new[d].items)
                            new_item == new[d].items[last]
                        IN  /\ new[d].items =
                                   Append(RemoveAt(old[d].items, k), new_item)
                            /\ new_item.start_time = old_item.start_time
                            /\ new_item.transport_time = old_item.transport_time
                            /\ new_item.transport_cost = old_item.transport_cost
                            /\ new_item.activity.id \notin OtherIds(new, d, last)
                            /\ new_item.activity.id \in used_activities'
                            /\ (old_item.activity.cost > 0) =>
                                  new_item.activity.cost * 10
                                      <= old_item.activity.cost * 12
                            /\ (\A e \in DOMAIN old : e # d => new[e] = old[e]))
              /\ (\A d \in DOMAIN old : \A k \in DOMAIN old[d].items :
                     NoCandidate(old[d].items[k], used_activities))
                    => (new = old /\ used_activities' = used_activities)]_vars

\* A replacement has happened on the first of two items of a day: the item
\* that was second is now first, and the last item carries the first item's
\* start time and transport fields with activity 3, whose cost of 10 is
\* within 1.2 times the cost of either activity it can have replaced.
C22_Witness ==
    /\ breeder[1].pc = "append"
    /\ Len(breeder[1].child.days) = 2
    /\ LET items == breeder[1].child.days[2].items
       IN  /\ Len(items) = 2
           /\ items[1].activity.id = 2
           /\ items[1].transport_time = 20
           /\ items[2].activity.id = 3
           /\ items[2].transport_time = 10
           /\ items[2].transport_cost = 7
           /\ items[2].start_time = At(1, 9, 0)
    /\ breeder[1].child.days[1].items = <<>>
    /\ used_activities = {2, 3}

\* The positions <<day, index>> of the items of itinerary_days.
Positions(itinerary_days) ==
    UNION {{d} \X DOMAIN itinerary_days[d].items : d \in DOMAIN itinerary_days}

\* How many items of itinerary_days equal item.
ItemCount(itinerary_days, item) ==
    Cardinality({q \in Positions(itinerary_days) :
                    itinerary_days[q[1]].items[q[2]] = item})

\* Both itineraries hold the same items the same number of times.
SameItems(a, b) ==
    \A q \in Positions(a) \cup Positions(b) :
        LET item == IF q \in Positions(a) THEN a[q[1]].items[q[2]]
                    ELSE b[q[1]].items[q[2]]
        IN  ItemCount(a, item) = ItemCount(b, item)

\* The days of itinerary_days that have items.
Busy_Days(itinerary_days) ==
    {d \in DOMAIN itinerary_days : itinerary_days[d].items # <<>>}

\* C23: a swap mutation keeps the number of days, every day's item count and
\* the itinerary's multiset of items. When it changes the itinerary, two
\* distinct days each gave one item to the end of the other and every other
\* day is untouched. It changes the itinerary when there are at least two
\* days and all have items, and leaves it unchanged when there are fewer
\* than two days or fewer than two days with items.
C23_SwapMutation ==
    [][(breeder[1].pc = "mutate" /\ breeder'[1].pc = "append") =>
          LET old == breeder[1].child.days
              new == breeder'[1].child.days
          IN  /\ Len(new) = Len(old)
              /\ (\A d \in DOMAIN old : Len(new[d].items) = Len(old[d].items))
              /\ SameItems(old, new)
              /\ used_activities' = used_activities
              /\ (new # old) =>
                    (\E d1 \in DOMAIN old : \E d2 \in DOMAIN old \ {d1} :
                     \E k1 \in DOMAIN old[d1].items :
                     \E k2 \in DOMAIN old[d2].items :
                        /\ new[d1].items = Append(RemoveAt(old[d1].items, k1),
                                                  old[d2].items[k2])
                        /\ new[d2].items = Append(RemoveAt(old[d2].items, k2),
                                                  old[d1].items[k1])
                        /\ (\A e \in DOMAIN old \ {d1, d2} : new[e] = old[e]))
              /\ (Len(old) >= 2 /\ Busy_Days(old) = DOMAIN old) => new # old
              /\ (Len(old) < 2 \/ Cardinality(Busy_Days(old)) < 2) => new = old]_vars

\* A swap has happened between days 1 and 2 of three days that all have
\* items: the last item of day 1 starts on day 2's date, the last item of
\* day 2 on day 1's date, and day 3 holds its own item.
C23_Witness ==
    /\ breeder[1].pc = "append"
    /\ Len(breeder[1].child.days) = 3
    /\ LET itinerary_days == breeder[1].child.days
       IN  /\ Len(itinerary_days[1].items) = 1
           /\ itinerary_days[1].items[1].start_time = At(1, 9, 0)
           /\ Len(itinerary_days[2].items) = 1
           /\ itinerary_days[2].items[1].start_time = At(0, 9, 0)
           /\ Len(itinerary_days[3].items) = 1
           /\ itinerary_days[3].items[1].start_time = At(2, 9, 0)

\* Sequence b holds the elements of sequence a in some order.
IsPermutation(a, b) ==
    /\ Len(a) = Len(b)
    /\ \E p \in Permutations(DOMAIN a) : \A k \in DOMAIN a : b[k] = a[p[k]]

\* C24: a shuffle mutation changes at most one day, and only the order of
\* its items: the day keeps its date, its weather and its items, each with
\* the activity, start_time, transport_time and transport_cost it had, and
\* every other day is untouched. Start times are not recomputed: wherever an
\* item lands it starts when it started before.
C24_ShuffleMutation ==
    [][(breeder[1].pc = "mutate" /\ breeder'[1].pc = "append") =>
          LET old == breeder[1].child.days
              new == breeder'[1].child.days
          IN  /\ Len(new) = Len(old)
              /\ used_activities' = used_activities
              /\ \E d \in DOMAIN old :
                    /\ new[d].date = old[d].date
                    /\ new[d].weather = old[d].weather
                    /\ IsPermutation(old[d].items, new[d].items)
                    /\ (\A e \in DOMAIN old \ {d} : new[e] = old[e])
              /\ (\A d \in DOMAIN old : Len(old[d].items) <= 1) => new = old]_vars

\* A shuffle has reordered day 2 of three days: its first item is the one
\* that was built second and starts at 14:00, its second item starts at
\* 9:00, so the order of the items disagrees with the order of their start
\* times; day 1 still holds its item.
C24_Witness ==
    /\ breeder[1].pc = "append"
    /\ Len(breeder[1].child.days) = 3
    /\ LET itinerary_days == breeder[1].child.days
       IN  /\ Len(itinerary_days[2].items) = 2
           /\ itinerary_days[2].items[1].start_time = At(1, 14, 0)
           /\ itinerary_days[2].items[1].transport_time = 20
           /\ itinerary_days[2].items[2].start_time = At(1, 9, 0)
           /\ itinerary_days[2].items[2].transport_time = 10
           /\ Len(itinerary_days[1].items) = 1
           /\ itinerary_days[1].items[1].start_time = At(0, 9, 0)

\* C25: when optimize has returned an itinerary, the fitness_score cached on
\* that itinerary equals the planner's best_score.
C25_ReturnedScore ==
    (pc = "done" /\ ~IsNone(best_solution))
        => best_solution.fitness_score = best_score

\* C26: with max_budget > 0, population_size >= 1 and max_iterations >= 1,
\* what optimize returns is an itinerary and not None, also when every
\* individual of every generation has scored 0.
C26_NeverNone ==
    (/\ pc = "done"
     /\ exception = "none"
     /\ preferences.max_budget > 0
     /\ population_size >= 1
     /\ max_iterations >= 1)
        => ~IsNone(best_solution)

\* C27: in a run of optimize, whenever a child is about to be mutated the
\* tracking set is exactly the set of the activity ids of that child, and
\* after a mutation it is exactly the set of the ids of the mutated child; so
\* no replace mutation raises KeyError when it releases the old item's id.
C27_UsedSetAtMutation ==
    /\ exception # "KeyError"
    /\ \A w \in DOMAIN breeder :
          (pc = "fill" /\ breeder[w].pc \in {"mutate", "append"})
              => used_activities = IdSet(breeder[w].child)

\* A replace mutation has run on a child: the child holds an activity that
\* neither of its parents holds, and the tracking set is the set of its ids.
C27_Witness ==
    /\ pc = "fill"
    /\ breeder[1].pc = "append"
    /\ exception = "none"
    /\ IdSet(breeder[1].child)
          \ (IdSet(breeder[1].parent1) \cup IdSet(breeder[1].parent2)) # {}
    /\ Cardinality(IdSet(breeder[1].child)) >= 2
    /\ used_activities = IdSet(breeder[1].child)

\* C28: whenever a replace mutation has changed the itinerary, the item it
\* appended holds an activity other than the one of the item it removed.
C28_ReplaceDiffers ==
    [][(/\ breeder[1].pc = "mutate"
        /\ breeder'[1].pc = "append"
        /\ breeder'[1].child.days # breeder[1].child.days) =>
          LET old == breeder[1].child.days
              new == breeder'[1].child.days
          IN  \E d \in DOMAIN old : \E k \in DOMAIN old[d].items :
                LET new_item == new[d].items[Len(new[d].items)]
                IN  /\ new[d].items = Append(RemoveAt(old[d].items, k), new_item)
                    /\ new_item.start_time = old[d].items[k].start_time
                    /\ new_item.activity.id # old[d].items[k].activity.id]_vars

\* The number of items of an itinerary.
ItemTotal(itinerary) == Len(AllItems(itinerary))

\* C29: while the initial population is built and until it is evaluated, no
\* activity id is on items of two different individuals, and the individuals
\* together hold at most as many items as the catalog has activities.
C29_InitialDisjoint ==
    (generation = 0 /\ pc \in {"itinerary", "date_loop", "day_loop", "generation"})
        => /\ \A i, j \in DOMAIN population :
                 i # j => IdSet(population[i]) \cap IdSet(population[j]) = {}
           /\ SumSeq([i \in DOMAIN population |-> ItemTotal(population[i])])
                 <= Len(activities)

\* The initial population is complete, two of its individuals hold items,
\* and together they hold every activity of the catalog.
C29_Witness ==
    /\ generation = 0
    /\ pc = "generation"
    /\ Len(population) = PopulationSize
    /\ Cardinality({i \in DOMAIN population : IdSet(population[i]) # {}}) >= 2
    /\ SumSeq([i \in DOMAIN population |-> ItemTotal(population[i])])
          = Len(activities)

\* Every item of the itinerary starts on the calendar date of its day.
OnOwnDate(itinerary) ==
    \A d \in DOMAIN itinerary.days :
        \A k \in DOMAIN itinerary.days[d].items :
            DateOf(itinerary.days[d].items[k].start_time)
                = DateOf(itinerary.days[d].date)

\* The itineraries optimize holds: the population, the next generation under
\* construction, a child in the making and the best solution.
HeldItineraries ==
    Range(population) \cup Range(new_population)
        \cup {breeder[w].child : w \in {v \in DOMAIN breeder :
                                            ~IsNone(breeder[v].child)}}
        \cup (IF IsNone(best_solution) THEN {} ELSE {best_solution})

\* C30: in every itinerary of every generation, in every child that is being
\* bred and in the itinerary optimize returns, each item's start_time lies
\* on the calendar date of the day that contains it.
C30_ItemDate ==
    \A itinerary \in HeldItineraries : OnOwnDate(itinerary)
====
